---- MODULE Spec2Model ----
(***************************************************************************)
(* Model of the tree-building part of k3git's Git wrapper                  *)
(* (git_wrapper.py): tree_items, tree_add_obj, tree_find_item,             *)
(* treeitem_parse, tree_new_replace, treeitems_replace_item, treeitem_new  *)
(* and obj_type, over a content-addressed object store that behaves as     *)
(* `git ls-tree`, `git mktree` and `git cat-file -t` do.                   *)
(*                                                                         *)
(* A Python string is a sequence of characters.  A character is a TLA+     *)
(* string: " ", TAB, NL, "/" are the separators the code splits on, and    *)
(* every other character is an atom ("a", "100644", "blob", an object      *)
(* hash).  Formatting concatenates, parsing splits.                        *)
(***************************************************************************)
EXTENDS Integers, Sequences, FiniteSets, TLC

VARIABLES store, root, last, calls, procs

vars == <<store, root, last, calls, procs>>

\* ---------------------------------------------------------------- bounds
MaxDepth == 3
MaxCalls == 1

\* ------------------------------------------------------------ characters
SP == " "
TAB == "\t"
NL == "\n"
sep == "/"

S(c) == <<c>>

None == <<>>
Some(x) == <<x>>

IsWs(c) == c \in {SP, TAB, NL}

Contains(s, c) == \E i \in 1..Len(s) : s[i] = c

IndexOf(s, c) == CHOOSE i \in 1..Len(s) : s[i] = c /\ \A j \in 1..(i-1) : s[j] # c

\* str.split(c, 1) of a string that contains c
Split1(s, c) ==
    LET i == IndexOf(s, c) IN <<SubSeq(s, 1, i - 1), SubSeq(s, i + 1, Len(s))>>

\* str.split(c)
RECURSIVE SplitAll(_, _)
SplitAll(s, c) ==
    IF ~Contains(s, c) THEN <<s>>
    ELSE LET i == IndexOf(s, c)
         IN <<SubSeq(s, 1, i - 1)>> \o SplitAll(SubSeq(s, i + 1, Len(s)), c)

\* str.split(): the maximal runs of non-whitespace characters
RECURSIVE SplitWs(_)
SplitWs(s) ==
    IF s = <<>> THEN <<>>
    ELSE IF IsWs(s[1]) THEN SplitWs(Tail(s))
    ELSE IF \E i \in 1..Len(s) : IsWs(s[i])
         THEN LET i == CHOOSE k \in 1..Len(s) :
                          IsWs(s[k]) /\ \A j \in 1..(k-1) : ~IsWs(s[j])
              IN <<SubSeq(s, 1, i - 1)>> \o SplitWs(SubSeq(s, i + 1, Len(s)))
         ELSE <<s>>

\* c.join(strs)
RECURSIVE Join(_, _)
Join(strs, c) ==
    IF strs = <<>> THEN <<>>
    ELSE IF Len(strs) = 1 THEN strs[1]
    ELSE strs[1] \o <<c>> \o Join(Tail(strs), c)

Reversed(q) == [i \in 1..Len(q) |-> q[Len(q) + 1 - i]]

Front(q) == SubSeq(q, 1, Len(q) - 1)

\* the characters of s written out as one TLA+ string
RECURSIVE Flat(_)
Flat(s) == IF s = <<>> THEN "" ELSE s[1] \o Flat(Tail(s))

\* --------------------------------------------------------------- results
\* A call either returns a value or raises; ctx is the object store after
\* the call together with the store commands the call has issued.
Ok(v, ctx) == [ok |-> TRUE, val |-> v, ctx |-> ctx]
Err(e, ctx) == [ok |-> FALSE, val |-> S(e), ctx |-> ctx]

Logged(ctx, op, arg, r) ==
    [ctx EXCEPT !.log = Append(@, [op |-> op, arg |-> arg, ok |-> r.ok, val |-> r.val])]

\* ------------------------------------------------ the object store (git)
\* An object hash is a one-character string.  store maps the hashes of the
\* stored objects to [type, items]: items are the entries of a tree, each
\* [mode, type, object, fn], kept in git's order (sorted by name).

Alphabet == <<SP, TAB, NL, sep, "a", "b", "c", "d">>

Rank(c) == IF \E i \in 1..Len(Alphabet) : Alphabet[i] = c
           THEN CHOOSE i \in 1..Len(Alphabet) : Alphabet[i] = c
           ELSE 0

\* byte-wise comparison of two names
RECURSIVE NameLess(_, _)
NameLess(x, y) ==
    IF y = <<>> THEN FALSE
    ELSE IF x = <<>> THEN TRUE
    ELSE IF Rank(x[1]) # Rank(y[1]) THEN Rank(x[1]) < Rank(y[1])
    ELSE NameLess(Tail(x), Tail(y))

\* e put into the sorted list q, after the entries that do not sort after it
RECURSIVE InsertSorted(_, _)
InsertSorted(q, e) ==
    IF q = <<>> THEN <<e>>
    ELSE IF NameLess(e.fn, q[1].fn) THEN <<e>> \o q
    ELSE <<q[1]>> \o InsertSorted(Tail(q), e)

RECURSIVE SortEntries(_)
SortEntries(q) ==
    IF q = <<>> THEN <<>>
    ELSE InsertSorted(SortEntries(SubSeq(q, 1, Len(q) - 1)), q[Len(q)])

\* the object type a file mode stands for
ModeType(mode) ==
    IF mode = S("040000") THEN "tree"
    ELSE IF mode = S("160000") THEN "commit"
    ELSE "blob"

\* the content address of a tree: its sorted (mode, name, object) triples
RECURSIVE FlatEntries(_)
FlatEntries(q) ==
    IF q = <<>> THEN ""
    ELSE Flat(q[1].mode) \o " " \o Flat(q[1].fn) \o "=" \o Flat(q[1].object)
         \o ";" \o FlatEntries(Tail(q))

TreeHash(entries) == S("T(" \o FlatEntries(entries) \o ")")

\* one "<mode> SP <type> SP <object> TAB <file>" line of ls-tree output
LsTreeLine(e) == e.mode \o S(SP) \o e.type \o S(SP) \o e.object \o S(TAB) \o e.fn

\* git ls-tree <treeish>: the lines of the tree, or failure
GitLsTree(st, treeish) ==
    IF treeish \in DOMAIN st /\ st[treeish].type = "tree"
    THEN [ok |-> TRUE,
          val |-> [i \in 1..Len(st[treeish].items) |-> LsTreeLine(st[treeish].items[i])]]
    ELSE [ok |-> FALSE, val |-> S("NotFoundError")]

\* git cat-file -t <obj>
GitCatFileT(st, obj) ==
    IF obj \in DOMAIN st
    THEN [ok |-> TRUE, val |-> S(st[obj].type)]
    ELSE [ok |-> FALSE, val |-> S("NotFoundError")]

\* one input line of git mktree, as git reads it
GitMktreeLine(st, line) ==
    IF ~Contains(line, TAB) THEN [ok |-> FALSE, val |-> S("StoreError")]
    ELSE LET pf == Split1(line, TAB)
             elts == SplitWs(pf[1])
         IN IF Len(elts) # 3 THEN [ok |-> FALSE, val |-> S("StoreError")]
            ELSE IF Contains(pf[2], sep) THEN [ok |-> FALSE, val |-> S("StoreError")]
            ELSE IF elts[3] \notin DOMAIN st
                 THEN [ok |-> FALSE, val |-> S("NotFoundError")]
            ELSE IF S(st[elts[3]].type) # elts[2] \/ S(ModeType(elts[1])) # elts[2]
                 THEN [ok |-> FALSE, val |-> S("StoreError")]
            ELSE [ok |-> TRUE,
                  val |-> [mode |-> elts[1], type |-> elts[2],
                           object |-> elts[3], fn |-> pf[2]]]

\* git mktree, were object names handed out in sequence instead of derived
\* from the content alone
GitMktree_Numbered(st, input) ==
    LET lines == IF input = <<>> THEN <<>> ELSE SplitAll(input, NL)
        parsed == [i \in 1..Len(lines) |-> GitMktreeLine(st, lines[i])]
    IN IF \E i \in 1..Len(lines) : ~parsed[i].ok
       THEN LET i == CHOOSE k \in 1..Len(lines) :
                         ~parsed[k].ok /\ \A j \in 1..(k-1) : parsed[j].ok
            IN [ok |-> FALSE, val |-> parsed[i].val, store |-> st]
       ELSE LET entries == SortEntries([i \in 1..Len(lines) |-> parsed[i].val])
                h == S(Flat(TreeHash(entries)) \o "#" \o ToString(Cardinality(DOMAIN st)))
            IN [ok |-> TRUE, val |-> h,
                store |-> (h :> [type |-> "tree", items |-> entries]) @@ st]

\* git mktree, were a tree stored as it was given, over the stored one
GitMktree_Overwrite(st, input) ==
    LET lines == IF input = <<>> THEN <<>> ELSE SplitAll(input, NL)
        parsed == [i \in 1..Len(lines) |-> GitMktreeLine(st, lines[i])]
    IN IF \E i \in 1..Len(lines) : ~parsed[i].ok
       THEN LET i == CHOOSE k \in 1..Len(lines) :
                         ~parsed[k].ok /\ \A j \in 1..(k-1) : parsed[j].ok
            IN [ok |-> FALSE, val |-> parsed[i].val, store |-> st]
       ELSE LET given == [i \in 1..Len(lines) |-> parsed[i].val]
                h == TreeHash(SortEntries(given))
            IN [ok |-> TRUE, val |-> h,
                store |-> [x \in DOMAIN st \cup {h} |->
                             IF x = h THEN [type |-> "tree", items |-> given]
                             ELSE st[x]]]

\* git mktree, were the entries kept, and hashed, in the order given
GitMktree_Unsorted(st, input) ==
    LET lines == IF input = <<>> THEN <<>> ELSE SplitAll(input, NL)
        parsed == [i \in 1..Len(lines) |-> GitMktreeLine(st, lines[i])]
    IN IF \E i \in 1..Len(lines) : ~parsed[i].ok
       THEN LET i == CHOOSE k \in 1..Len(lines) :
                         ~parsed[k].ok /\ \A j \in 1..(k-1) : parsed[j].ok
            IN [ok |-> FALSE, val |-> parsed[i].val, store |-> st]
       ELSE LET entries == [i \in 1..Len(lines) |-> parsed[i].val]
                h == TreeHash(entries)
            IN [ok |-> TRUE, val |-> h,
                store |-> IF h \in DOMAIN st THEN st
                          ELSE (h :> [type |-> "tree", items |-> entries]) @@ st]

\* git mktree < input: the new store and the hash of the tree, or failure
GitMktree(st, input) ==
    LET lines == IF input = <<>> THEN <<>> ELSE SplitAll(input, NL)
        parsed == [i \in 1..Len(lines) |-> GitMktreeLine(st, lines[i])]
    IN IF \E i \in 1..Len(lines) : ~parsed[i].ok
       THEN LET i == CHOOSE k \in 1..Len(lines) :
                         ~parsed[k].ok /\ \A j \in 1..(k-1) : parsed[j].ok
            IN [ok |-> FALSE, val |-> parsed[i].val, store |-> st]
       ELSE LET entries == SortEntries([i \in 1..Len(lines) |-> parsed[i].val])
                h == TreeHash(entries)
            IN [ok |-> TRUE, val |-> h,
                store |-> IF h \in DOMAIN st THEN st
                          ELSE (h :> [type |-> "tree", items |-> entries]) @@ st]

\* ------------------------------------------------------ git_wrapper.Git
\* A statement `x = e; rest`: e is evaluated once and rest sees its value.
Let(e, Rest(_)) == CHOOSE y \in {Rest(x) : x \in {e}} : TRUE

\* `x = e; rest`, where a raise in e ends the caller with the same error
Try(e, Rest(_)) == CHOOSE y \in {IF x.ok THEN Rest(x) ELSE x : x \in {e}} : TRUE

\* cmdf(...): one git command of the call, the n-th it issues.  It raises
\* when git exits with an error: by what the store holds (r), or, for the
\* command numbered ctx.fail, by a failure of the store itself (I/O).
\* A call in progress is a call run again over the answers it has received
\* (ctx.replay): the commands already answered are not issued again, and the
\* run is cut after the command numbered ctx.stop, where the call next waits.
cmdf(ctx, op, arg, r) ==
    LET n == Len(ctx.log) + 1
    IN IF n <= Len(ctx.replay)
       THEN [ok |-> ctx.replay[n].ok, val |-> ctx.replay[n].val,
             ctx |-> Logged(ctx, op, arg, ctx.replay[n])]
       ELSE IF ctx.stop # None /\ n > ctx.stop[1]
       THEN Err("Suspended", ctx)
       ELSE IF ctx.fail = n
       THEN [ok |-> FALSE, val |-> S("StoreError"),
             ctx |-> Logged(ctx, op, arg, [ok |-> FALSE, val |-> S("StoreError")])]
       ELSE Let(r, LAMBDA x :
                [ok |-> x.ok, val |-> x.val,
                 ctx |-> Logged([ctx EXCEPT !.store = x.store], op, arg, x)])

\* cmdf("cat-file", "-t", obj, flag + "n0"): the type, or the error raised
obj_type(ctx, obj) ==
    cmdf(ctx, "cat-file", obj, [store |-> ctx.store] @@ GitCatFileT(ctx.store, obj))

\* cmdf("ls-tree", treeish, flag "xno"): the output lines, or the error raised
tree_items(ctx, treeish) ==
    cmdf(ctx, "ls-tree", treeish, [store |-> ctx.store] @@ GitLsTree(ctx.store, treeish))

\* cmdf("mktree", input, flag "xn0"): the hash of the tree written
cmdf_mktree(ctx, input) ==
    cmdf(ctx, "mktree", input, GitMktree(ctx.store, input))

\* the parse that cuts the name at the last tab instead of the first
treeitem_parse_LastTab(line) ==
    IF ~Contains(line, TAB) THEN [ok |-> FALSE, val |-> S("ValueError")]
    ELSE LET i == CHOOSE k \in 1..Len(line) :
                      line[k] = TAB /\ \A j \in (k+1)..Len(line) : line[j] # TAB
             elts == SplitWs(SubSeq(line, 1, i - 1))
         IN IF Len(elts) < 3 THEN [ok |-> FALSE, val |-> S("IndexError")]
            ELSE LET rst == [mode |-> elts[1], type |-> elts[2],
                             object |-> elts[3], fn |-> SubSeq(line, i + 1, Len(line))]
                 IN [ok |-> TRUE,
                     val |-> IF Len(elts) = 4 THEN [size |-> elts[4]] @@ rst ELSE rst]

\* the parse that takes a line without a tab as a line without a name
treeitem_parse_NoTabOk(line) ==
    LET p == IF Contains(line, TAB) THEN Split1(line, TAB)[1] ELSE line
        fn == IF Contains(line, TAB) THEN Split1(line, TAB)[2] ELSE <<>>
        elts == SplitWs(p)
    IN IF Len(elts) < 3 THEN [ok |-> FALSE, val |-> S("IndexError")]
       ELSE LET rst == [mode |-> elts[1], type |-> elts[2], object |-> elts[3], fn |-> fn]
            IN [ok |-> TRUE,
                val |-> IF Len(elts) = 4 THEN [size |-> elts[4]] @@ rst ELSE rst]

\* line.split("\t", 1) raises ValueError without a tab, elts[2] raises
\* IndexError with fewer than three fields
treeitem_parse(line) ==
    IF ~Contains(line, TAB) THEN [ok |-> FALSE, val |-> S("ValueError")]
    ELSE Let(Split1(line, TAB), LAMBDA pf :
         Let(SplitWs(pf[1]), LAMBDA elts :
            IF Len(elts) < 3 THEN [ok |-> FALSE, val |-> S("IndexError")]
            ELSE LET rst == [mode |-> elts[1], type |-> elts[2],
                             object |-> elts[3], fn |-> pf[2]]
                 IN [ok |-> TRUE,
                     val |-> IF Len(elts) = 4
                             THEN [size |-> elts[4]] @@ rst
                             ELSE rst]))

\* "{mode} {typ} {object}\t{name}".format(...)
item_fmt(mod, typ, obj, name) == mod \o S(SP) \o typ \o S(SP) \o obj \o S(TAB) \o name

\* treeitem_new without the test for a tree
treeitem_new_NoTreeMode(ctx, name, obj, mode) ==
    Try(obj_type(ctx, obj), LAMBDA t :
        LET mod == IF mode = None THEN S("100644") ELSE mode[1]
        IN Ok(mod \o S(SP) \o t.val \o S(SP) \o obj \o S(TAB) \o name, t.ctx))

\* treeitem_new that never uses the mode it is given
treeitem_new_IgnoreMode(ctx, name, obj, mode) ==
    Try(obj_type(ctx, obj), LAMBDA t :
        LET mod == IF t.val = S("tree") THEN S("040000") ELSE S("100644")
        IN Ok(mod \o S(SP) \o t.val \o S(SP) \o obj \o S(TAB) \o name, t.ctx))

\* treeitem_new, were an object whose type cannot be read taken for a blob
treeitem_new_AssumeBlob(ctx, name, obj, mode) ==
    Let(obj_type(ctx, obj), LAMBDA t :
        LET typ == IF t.ok THEN t.val ELSE S("blob")
            mod == IF typ = S("tree") THEN S("040000")
                   ELSE IF mode = None THEN S("100644")
                   ELSE mode[1]
        IN Ok(item_fmt(mod, typ, obj, name), t.ctx))

\* mode is None or Some(mode)
treeitem_new(ctx, name, obj, mode) ==
    Try(obj_type(ctx, obj), LAMBDA t :
        LET typ == t.val
            mod == IF typ = S("tree") THEN S("040000")
                   ELSE IF mode = None THEN S("100644")
                   ELSE mode[1]
        IN Ok(item_fmt(mod, typ, obj, name), t.ctx))

\* the filter that removes nothing
FilterItems_KeepAll(itms, name) == [ok |-> TRUE, val |-> itms]

\* the filter with == for !=
RECURSIVE FilterItems_Inverted(_, _)
FilterItems_Inverted(itms, name) ==
    IF itms = <<>> THEN [ok |-> TRUE, val |-> <<>>]
    ELSE Try(treeitem_parse(itms[1]), LAMBDA x :
         Try(FilterItems_Inverted(Tail(itms), name), LAMBDA rest :
            [ok |-> TRUE,
             val |-> IF x.val.fn = name THEN <<itms[1]>> \o rest.val ELSE rest.val]))

\* [x for x in itms if treeitem_parse(x)["fn"] != name]; the first line
\* that does not parse raises
RECURSIVE FilterItems(_, _)
FilterItems(itms, name) ==
    IF itms = <<>> THEN [ok |-> TRUE, val |-> <<>>]
    ELSE Try(treeitem_parse(itms[1]), LAMBDA x :
         Try(FilterItems(Tail(itms), name), LAMBDA rest :
            [ok |-> TRUE,
             val |-> IF x.val.fn # name THEN <<itms[1]>> \o rest.val ELSE rest.val]))

\* treeitems_replace_item, were the new item put first
treeitems_replace_item_Prepend(ctx, itms, name, obj, mode) ==
    Let(FilterItems(itms, name), LAMBDA new_items :
        IF ~new_items.ok THEN [ok |-> FALSE, val |-> new_items.val, ctx |-> ctx]
        ELSE IF obj = None THEN Ok(new_items.val, ctx)
        ELSE Try(treeitem_new(ctx, name, obj[1], mode), LAMBDA itm :
                 Ok(<<itm.val>> \o new_items.val, itm.ctx)))

\* obj is None or Some(object)
treeitems_replace_item(ctx, itms, name, obj, mode) ==
    Let(FilterItems(itms, name), LAMBDA new_items :
        IF ~new_items.ok THEN [ok |-> FALSE, val |-> new_items.val, ctx |-> ctx]
        ELSE IF obj = None THEN Ok(new_items.val, ctx)
        ELSE Try(treeitem_new(ctx, name, obj[1], mode), LAMBDA itm :
                 Ok(Append(new_items.val, itm.val), itm.ctx)))

\* tree_new_replace, were the tree without the entry written before the
\* tree with it
tree_new_replace_Staged(ctx, itms, name, obj, mode) ==
    Try(treeitems_replace_item(ctx, itms, name, None, mode), LAMBDA kept :
    Try(cmdf_mktree(kept.ctx, Join(kept.val, NL)), LAMBDA staged :
    Try(treeitems_replace_item(staged.ctx, itms, name, Some(obj), mode), LAMBDA new_items :
        cmdf_mktree(new_items.ctx, Join(new_items.val, NL)))))

tree_new_replace(ctx, itms, name, obj, mode) ==
    Try(treeitems_replace_item(ctx, itms, name, Some(obj), mode), LAMBDA new_items :
        cmdf_mktree(new_items.ctx, Join(new_items.val, NL)))

tree_new(ctx, itms) == cmdf_mktree(ctx, Join(itms, NL))

\* the search that does not compare the name
RECURSIVE FindItem_AnyName(_, _, _)
FindItem_AnyName(lines, fn, typ) ==
    IF lines = <<>> THEN [ok |-> TRUE, val |-> None]
    ELSE Try(treeitem_parse(lines[1]), LAMBDA itm :
            IF typ # None /\ itm.val.type # typ[1] THEN FindItem_AnyName(Tail(lines), fn, typ)
            ELSE [ok |-> TRUE, val |-> Some(itm.val)])

\* for itm in lines: the first parsed item with that name and that type
RECURSIVE FindItem(_, _, _)
FindItem(lines, fn, typ) ==
    IF lines = <<>> THEN [ok |-> TRUE, val |-> None]
    ELSE Try(treeitem_parse(lines[1]), LAMBDA itm :
            IF fn # None /\ itm.val.fn # fn[1] THEN FindItem(Tail(lines), fn, typ)
            ELSE IF typ # None /\ itm.val.type # typ[1] THEN FindItem(Tail(lines), fn, typ)
            ELSE [ok |-> TRUE, val |-> Some(itm.val)])

\* tree_find_item, were a failed listing taken for a tree without the item
tree_find_item_Swallow(ctx, treeish, fn, typ) ==
    Let(tree_items(ctx, treeish), LAMBDA ls :
        IF ~ls.ok THEN Ok(None, ls.ctx)
        ELSE Let(FindItem(ls.val, fn, typ), LAMBDA r :
                 [ok |-> r.ok, val |-> r.val, ctx |-> ls.ctx]))

\* fn and typ are None or Some(string); the result is None or Some(item)
tree_find_item(ctx, treeish, fn, typ) ==
    Try(tree_items(ctx, treeish), LAMBDA ls :
        Let(FindItem(ls.val, fn, typ), LAMBDA r :
            [ok |-> r.ok, val |-> r.val, ctx |-> ls.ctx]))

\* the chain built outermost first: reversed() forgotten by the caller
RECURSIVE NewChain_Unreversed(_, _, _)
NewChain_Unreversed(ctx, comps, newsubtree) ==
    IF comps = <<>> THEN Ok(newsubtree, ctx)
    ELSE Try(tree_new_replace(ctx, <<>>, comps[Len(comps)], newsubtree, None), LAMBDA r :
             NewChain_Unreversed(r.ctx, Front(comps), r.val))

\* for p in reversed(left.split(sep)): newsubtree = tree_new_replace([], p, newsubtree)
RECURSIVE NewChain(_, _, _)
NewChain(ctx, comps, newsubtree) ==
    IF comps = <<>> THEN Ok(newsubtree, ctx)
    ELSE Try(tree_new_replace(ctx, <<>>, comps[1], newsubtree, None), LAMBDA r :
             NewChain(r.ctx, Tail(comps), r.val))

RECURSIVE tree_add_obj(_, _, _, _)
tree_add_obj(ctx, cur_tree, path, treeish) ==
    Try(tree_items(ctx, cur_tree), LAMBDA itms :
        IF ~Contains(path, sep)
        THEN tree_new_replace(itms.ctx, itms.val, path, treeish, None)
        ELSE LET p0 == Split1(path, sep)[1]
                 left == Split1(path, sep)[2]
             IN Try(tree_find_item(itms.ctx, cur_tree, Some(p0), Some(S("tree"))),
                    LAMBDA p0item :
                Try(IF p0item.val = None
                    THEN NewChain(p0item.ctx, Reversed(SplitAll(left, sep)), treeish)
                    ELSE tree_add_obj(p0item.ctx, p0item.val[1].object, left, treeish),
                    LAMBDA newsubtree :
                tree_new_replace(newsubtree.ctx, itms.val, p0, newsubtree.val, None))))

\* ------------------------------------------------------------ the inputs
Names == {S("a"), S("b")}

\* the paths of 1..MaxDepth components, written with the separator
Paths == UNION {{Join(comps, sep) : comps \in [1..n -> Names]} : n \in 1..MaxDepth}

Modes == {None, Some(S("100755"))}

Blob1 == S("b1")
Blob2 == S("b2")
Commit1 == S("c1")
Unknown == S("zz")

Entry(mode, type, object, fn) ==
    [mode |-> S(mode), type |-> S(type), object |-> object, fn |-> fn]

EmptyTree == TreeHash(<<>>)
LeafItems == <<Entry("100644", "blob", Blob1, S("a"))>>
LeafTree == TreeHash(LeafItems)
MidItems == <<Entry("040000", "tree", LeafTree, S("a")),
              Entry("100755", "blob", Blob1, S("b"))>>
MidTree == TreeHash(MidItems)
RootItems == <<Entry("040000", "tree", MidTree, S("a")),
               Entry("100644", "blob", Blob1, S("b"))>>
RootTree == TreeHash(RootItems)

\* the repository the calls start from
InitStore ==
    (Blob1 :> [type |-> "blob", items |-> <<>>])
    @@ (Blob2 :> [type |-> "blob", items |-> <<>>])
    @@ (Commit1 :> [type |-> "commit", items |-> <<>>])
    @@ (EmptyTree :> [type |-> "tree", items |-> <<>>])
    @@ (LeafTree :> [type |-> "tree", items |-> LeafItems])
    @@ (MidTree :> [type |-> "tree", items |-> MidItems])
    @@ (RootTree :> [type |-> "tree", items |-> RootItems])

InitTrees == {EmptyTree, RootTree}

\* the objects a caller passes: a blob, a commit, a tree, an unknown hash
Objs == {Blob1, Commit1, LeafTree, Unknown}

\* ------------------------------------------------------ the state machine
NoCall == [op |-> "none", cur_tree |-> <<>>, itms |-> <<>>, path |-> <<>>,
           obj |-> <<>>, mode |-> None, pre |-> InitStore,
           ok |-> FALSE, val |-> <<>>, log |-> <<>>]

Ctx0 == [store |-> store, log |-> <<>>, replay |-> <<>>, stop |-> None, fail |-> 0]

Init ==
    /\ store = InitStore
    /\ root \in InitTrees
    /\ last = NoCall
    /\ calls = 0
    /\ procs = <<>>

\* newtree = g.tree_add_obj(root, path, treeish)
TreeAddObj(path, treeish) ==
    /\ calls < MaxCalls
    /\ \E r \in {tree_add_obj(Ctx0, root, path, treeish)} :
          /\ store' = r.ctx.store
          /\ root' = IF r.ok THEN r.val ELSE root
          /\ last' = [op |-> "tree_add_obj", cur_tree |-> root, itms |-> <<>>,
                      path |-> path, obj |-> treeish, mode |-> None,
                      pre |-> store, ok |-> r.ok, val |-> r.val, log |-> r.ctx.log]
    /\ calls' = calls + 1
    /\ UNCHANGED procs

\* treeish = g.tree_new_replace(g.tree_items(root), name, obj, mode=mode)
TreeNewReplace(name, obj, mode) ==
    /\ calls < MaxCalls
    /\ \E itms \in {GitLsTree(store, root).val} :
       \E r \in {tree_new_replace(Ctx0, itms, name, obj, mode)} :
          /\ store' = r.ctx.store
          /\ root' = IF r.ok THEN r.val ELSE root
          /\ last' = [op |-> "tree_new_replace", cur_tree |-> root, itms |-> itms,
                      path |-> name, obj |-> obj, mode |-> mode,
                      pre |-> store, ok |-> r.ok, val |-> r.val, log |-> r.ctx.log]
    /\ calls' = calls + 1
    /\ UNCHANGED procs

\* got = g.treeitem_new(name, obj, mode=mode)
TreeitemNew(name, obj, mode) ==
    /\ calls < MaxCalls
    /\ \E r \in {treeitem_new(Ctx0, name, obj, mode)} :
          /\ last' = [op |-> "treeitem_new", cur_tree |-> root, itms |-> <<>>,
                      path |-> name, obj |-> obj, mode |-> mode,
                      pre |-> store, ok |-> r.ok, val |-> r.val, log |-> r.ctx.log]
    /\ calls' = calls + 1
    /\ UNCHANGED procs
    /\ UNCHANGED <<store, root>>

Next ==
    \/ \E path \in Paths, treeish \in Objs : TreeAddObj(path, treeish)
    \/ \E name \in Names, obj \in Objs, mode \in Modes : TreeNewReplace(name, obj, mode)
    \/ \E name \in Names, obj \in Objs, mode \in Modes : TreeitemNew(name, obj, mode)

Spec == Init /\ [][Next]_vars

TypeOK ==
    /\ root \in DOMAIN store
    /\ store[root].type = "tree"
    /\ calls \in 0..MaxCalls

\* ------------------------------------------------------------ observation
Range(q) == {q[i] : i \in 1..Len(q)}

Items(st, t) == st[t].items

IsTree(st, h) == h \in DOMAIN st /\ st[h].type = "tree"

IsPrefix(x, y) == Len(x) <= Len(y) /\ SubSeq(y, 1, Len(x)) = x

\* git ls-tree -r: the set of <<path components, leaf object>> below tree t
RECURSIVE Listing(_, _)
Listing(st, t) ==
    UNION {IF e.type = S("tree")
           THEN {<<<<e.fn>> \o pl[1], pl[2]>> : pl \in Listing(st, e.object)}
           ELSE {<<<<e.fn>>, e.object>>} : e \in Range(Items(st, t))}

\* the entries of tree t with that name
Named(st, t, name) == {e \in Range(Items(st, t)) : e.fn = name}

\* the call the state records
AddCall == last.op = "tree_add_obj"
AddDone == AddCall /\ last.ok
LastComps == SplitAll(last.path, sep)

\* C1's right-hand side: the listing of R without p, without what lies below
\* p and without the leaves that are proper prefixes of p, plus o at p
ExpectedListing(st, R, comps, o) ==
    {pl \in Listing(st, R) : ~IsPrefix(comps, pl[1]) /\ ~IsPrefix(pl[1], comps)}
    \cup (IF IsTree(st, o)
          THEN {<<comps \o pl[1], pl[2]>> : pl \in Listing(st, o)}
          ELSE {<<comps, o>>})

\* C1: whenever tree_add_obj(R, p, o) returns a tree, its recursive listing
\* is the listing of R with every path equal to p, below p, or a leaf that is
\* a proper prefix of p removed, and with o (o's own listing when o is a
\* tree) added at p; every other path of R is listed unchanged.
C1_Listing ==
    AddDone =>
        Listing(store, last.val)
            = ExpectedListing(last.pre, last.cur_tree, LastComps, last.obj)

\* a three-component insert of a tree below an existing tree, through a path
\* that removes a leaf of R and leaves another path of R listed
C1_Witness ==
    /\ AddDone
    /\ Len(LastComps) = 3
    /\ IsTree(last.pre, last.obj)
    /\ \E pl \in Listing(last.pre, last.cur_tree) :
           IsPrefix(pl[1], LastComps) /\ pl[1] # LastComps
    /\ \E pl \in Listing(last.pre, last.cur_tree) : pl \in Listing(store, last.val)
    /\ C1_Listing

\* the positions of tree t that hold an entry with that name
NamedAt(st, t, name) == {i \in 1..Len(Items(st, t)) : Items(st, t)[i].fn = name}

\* the entries of tree t with that name that are trees
NamedTrees(st, t, name) == {e \in Named(st, t, name) : e.type = S("tree")}

\* the tree reached from t through tree entries named comps, None if a
\* component is absent or names no tree
RECURSIVE Descend(_, _, _)
Descend(st, t, comps) ==
    IF comps = <<>> THEN Some(t)
    ELSE IF NamedTrees(st, t, comps[1]) = {} THEN None
    ELSE Descend(st, (CHOOSE e \in NamedTrees(st, t, comps[1]) : TRUE).object, Tail(comps))

Siblings(st, t, name) == SelectSeq(Items(st, t), LAMBDA e : e.fn # name)

\* the entries off the path are the same in the old and the new tree of
\* every level the old root has along comps
RECURSIVE FrameAt(_, _, _, _, _)
FrameAt(ost, nst, old, new, comps) ==
    /\ Siblings(nst, new, comps[1]) = Siblings(ost, old, comps[1])
    /\ (Len(comps) > 1 /\ NamedTrees(ost, old, comps[1]) # {}) =>
           /\ NamedTrees(nst, new, comps[1]) # {}
           /\ FrameAt(ost, nst,
                      (CHOOSE e \in NamedTrees(ost, old, comps[1]) : TRUE).object,
                      (CHOOSE e \in NamedTrees(nst, new, comps[1]) : TRUE).object,
                      Tail(comps))

\* C2: after tree_add_obj(R, p, o), at every level along p the entries whose
\* name is not the path component of that level are, with the same mode,
\* type and object hash, the entries of the old tree of that level.
C2_Frame ==
    AddDone => FrameAt(last.pre, store, last.cur_tree, last.val, LastComps)

\* an insert two levels down, with a sibling at both levels, one of them an
\* executable (mode 100755)
C2_Witness ==
    /\ AddDone
    /\ Len(LastComps) = 3
    /\ Siblings(last.pre, last.cur_tree, LastComps[1]) # <<>>
    /\ Descend(last.pre, last.cur_tree, SubSeq(LastComps, 1, 2)) # None
    /\ \E e \in Range(Siblings(last.pre,
                               Descend(last.pre, last.cur_tree, SubSeq(LastComps, 1, 1))[1],
                               LastComps[2])) : e.mode = S("100755")
    /\ C2_Frame

StoredType(st, o) == IF o \in DOMAIN st THEN st[o].type ELSE "none"

\* C3: an insert of a stored blob or tree o at a path that names an entry of
\* R succeeds, the new tree at that place has exactly one entry of that name,
\* and the entry references o with o's type: nothing of the old entry stays.
C3_Overwrite ==
    (/\ AddCall
     /\ StoredType(last.pre, last.obj) \in {"blob", "tree"}
     /\ Descend(last.pre, last.cur_tree, Front(LastComps)) # None
     /\ Named(last.pre, Descend(last.pre, last.cur_tree, Front(LastComps))[1],
              LastComps[Len(LastComps)]) # {})
    => /\ last.ok
       /\ Descend(store, last.val, Front(LastComps)) # None
       /\ LET t == Descend(store, last.val, Front(LastComps))[1]
              name == LastComps[Len(LastComps)]
          IN /\ Cardinality(NamedAt(store, t, name)) = 1
             /\ \A e \in Named(store, t, name) :
                    /\ e.object = last.obj
                    /\ e.type = S(StoredType(last.pre, last.obj))
       /\ \A pl \in Listing(store, last.val) :
              IsPrefix(LastComps, pl[1]) =>
                  IF IsTree(last.pre, last.obj)
                  THEN <<SubSeq(pl[1], Len(LastComps) + 1, Len(pl[1])), pl[2]>>
                           \in Listing(last.pre, last.obj)
                  ELSE pl = <<LastComps, last.obj>>

\* a blob written over a tree that has children, below the root
C3_Witness ==
    /\ AddDone
    /\ Len(LastComps) >= 2
    /\ StoredType(last.pre, last.obj) = "blob"
    /\ Descend(last.pre, last.cur_tree, LastComps) # None
    /\ Listing(last.pre, Descend(last.pre, last.cur_tree, LastComps)[1]) # {}
    /\ C3_Overwrite

\* a tree written over a blob
C3_WitnessTree ==
    /\ AddDone
    /\ StoredType(last.pre, last.obj) = "tree"
    /\ Descend(last.pre, last.cur_tree, Front(LastComps)) # None
    /\ \E e \in Named(last.pre, Descend(last.pre, last.cur_tree, Front(LastComps))[1],
                      LastComps[Len(LastComps)]) : e.type = S("blob")

\* t holds one entry, named comps[1], that leads through one-entry trees
\* named by the rest of comps to an entry that references o
RECURSIVE ChainOK(_, _, _, _)
ChainOK(st, t, comps, o) ==
    /\ IsTree(st, t)
    /\ Len(Items(st, t)) = 1
    /\ Items(st, t)[1].fn = comps[1]
    /\ IF Len(comps) = 1 THEN Items(st, t)[1].object = o
       ELSE /\ Items(st, t)[1].type = S("tree")
            /\ ChainOK(st, Items(st, t)[1].object, Tail(comps), o)

\* at the first level whose tree has no tree entry named by the path, the
\* new tree has one entry of that name and it is the head of a fresh chain
RECURSIVE FreshChainAt(_, _, _, _, _, _)
FreshChainAt(ost, nst, old, new, comps, o) ==
    IF Len(comps) = 1 THEN TRUE
    ELSE IF NamedTrees(ost, old, comps[1]) = {}
    THEN /\ Cardinality(NamedAt(nst, new, comps[1])) = 1
         /\ \A e \in Named(nst, new, comps[1]) :
                /\ e.type = S("tree")
                /\ e.mode = S("040000")
                /\ ChainOK(nst, e.object, Tail(comps), o)
    ELSE /\ NamedTrees(nst, new, comps[1]) # {}
         /\ FreshChainAt(ost, nst,
                         (CHOOSE e \in NamedTrees(ost, old, comps[1]) : TRUE).object,
                         (CHOOSE e \in NamedTrees(nst, new, comps[1]) : TRUE).object,
                         Tail(comps), o)

\* C4: when the path has more than one component and the current tree has no
\* tree entry named head (absent, or a non-tree), the new tree has exactly
\* one entry named head, a tree that starts a chain of one-entry trees, one
\* per component of the tail, whose innermost entry references the object.
C4_FreshChain ==
    AddDone => FreshChainAt(last.pre, store, last.cur_tree, last.val, LastComps, last.obj)

\* the head names a blob of the root and the tail has two components
C4_Witness ==
    /\ AddDone
    /\ Len(LastComps) = 3
    /\ LastComps[2] # LastComps[3]
    /\ \E e \in Named(last.pre, last.cur_tree, LastComps[1]) : e.type = S("blob")
    /\ C4_FreshChain

\* the head is absent from the root and the tail has two components
C4_WitnessAbsent ==
    /\ AddDone
    /\ Len(LastComps) = 3
    /\ Named(last.pre, last.cur_tree, LastComps[1]) = {}

CtxOf(st) == [store |-> st, log |-> <<>>, replay |-> <<>>, stop |-> None, fail |-> 0]

\* every tree along comps below t holds one entry for its path component
RECURSIVE OneEntryAlong(_, _, _)
OneEntryAlong(st, t, comps) ==
    /\ Cardinality(NamedAt(st, t, comps[1])) = 1
    /\ Len(comps) > 1 =>
           /\ NamedTrees(st, t, comps[1]) # {}
           /\ OneEntryAlong(st, (CHOOSE e \in NamedTrees(st, t, comps[1]) : TRUE).object,
                            Tail(comps))

\* C5: last write wins.  After tree_add_obj(R, p, o1) has returned R1, the
\* call tree_add_obj(R1, p, o2) ends as tree_add_obj(R, p, o2) does, with the
\* same hash, and the trees along p hold one entry for each component of p.
C5_LastWriteWins ==
    AddDone =>
        \A o2 \in Objs :
            LET second == tree_add_obj(CtxOf(store), last.val, last.path, o2)
                direct == tree_add_obj(CtxOf(last.pre), last.cur_tree, last.path, o2)
            IN /\ second.ok = direct.ok
               /\ second.val = direct.val
               /\ second.ok => OneEntryAlong(second.ctx.store, second.val, LastComps)

\* a tree was written where the path was absent, so that a blob written over
\* it at the same three-component path has to give the tree of the blob alone
C5_Witness ==
    /\ AddDone
    /\ Len(LastComps) = 3
    /\ IsTree(last.pre, last.obj)
    /\ Descend(last.pre, last.cur_tree, SubSeq(LastComps, 1, 1)) = None
    /\ tree_add_obj(CtxOf(store), last.val, last.path, Blob1).ok
    /\ tree_add_obj(CtxOf(store), last.val, last.path, Blob1).val # last.val
    /\ C5_LastWriteWins

\* objects that other users of the repository add
OtherItems == <<Entry("100644", "blob", S("b9"), S("a"))>>

OtherObjs ==
    (S("b9") :> [type |-> "blob", items |-> <<>>])
    @@ (TreeHash(OtherItems) :> [type |-> "tree", items |-> OtherItems])

\* C6: a second run of tree_add_obj with the same root, path and object ends
\* as the first one did (the same hash, or the same error), when it starts
\* from the store the first run left, and when other objects were added to
\* the store before the first run or after it.
C6_Deterministic ==
    AddCall =>
        \A st \in {store, OtherObjs @@ store, OtherObjs @@ last.pre} :
            LET again == tree_add_obj(CtxOf(st), last.cur_tree, last.path, last.obj)
            IN again.ok = last.ok /\ again.val = last.val

\* a run that wrote three trees the store did not hold
C6_Witness ==
    /\ AddDone
    /\ Len(LastComps) = 3
    /\ Cardinality(DOMAIN store \ DOMAIN last.pre) = 3
    /\ C6_Deterministic

\* C7: the store only gains objects.  Every object the store held before a
\* call, and every object of the initial store, is held after it with the
\* same type and the same entry list, and the old root lists as before.
C7_StoreGrows ==
    /\ \A h \in DOMAIN InitStore : h \in DOMAIN store /\ store[h] = InitStore[h]
    /\ last.op # "none" =>
           /\ \A h \in DOMAIN last.pre : h \in DOMAIN store /\ store[h] = last.pre[h]
           /\ GitLsTree(store, last.cur_tree) = GitLsTree(last.pre, last.cur_tree)
           /\ Listing(store, last.cur_tree) = Listing(last.pre, last.cur_tree)

\* a call that returned a tree the store already held, written from an entry
\* list in another order than the stored one
C7_Witness ==
    /\ last.op \in {"tree_add_obj", "tree_new_replace"}
    /\ last.ok
    /\ last.val \in DOMAIN last.pre
    /\ Len(last.log) > 0
    /\ last.log[Len(last.log)].op = "mktree"
    /\ SplitAll(last.log[Len(last.log)].arg, NL)
           # GitLsTree(last.pre, last.val).val
    /\ C7_StoreGrows

\* a call that added trees to the store
C7_WitnessNew ==
    /\ AddDone
    /\ DOMAIN store # DOMAIN last.pre

UniqueNames(st, t) ==
    \A i, j \in 1..Len(Items(st, t)) :
        Items(st, t)[i].fn = Items(st, t)[j].fn => i = j

\* C8: every tree of the store has unique entry names, after any calls of
\* tree_add_obj and tree_new_replace on a store whose trees have them.
C8_UniqueNames ==
    \A h \in DOMAIN store : store[h].type = "tree" => UniqueNames(store, h)

\* a new tree in which an entry replaces one of the same name with another
\* object and another type
C8_Witness ==
    /\ last.op \in {"tree_add_obj", "tree_new_replace"}
    /\ last.ok
    /\ last.val \notin DOMAIN last.pre
    /\ Len(SplitAll(last.path, sep)) = 1
    /\ \E e \in Named(last.pre, last.cur_tree, last.path) :
           e.object # last.obj /\ e.type # S(StoredType(last.pre, last.obj))
    /\ Named(store, last.val, last.path) # {}
    /\ C8_UniqueNames

ItemCall == last.op = "treeitem_new"

\* the line "{mode} {type} {hash}<TAB>{name}"
ItemLine(mode, typ, obj, name) ==
    <<mode, SP, typ, SP>> \o obj \o <<TAB>> \o name

\* C9: without a mode, treeitem_new of a stored object gives the line
\* "{mode} {type} {hash}<TAB>{name}" with the type the store reports and the
\* mode 040000 for a tree, 100644 for every other type.
C9_DefaultMode ==
    (ItemCall /\ last.mode = None /\ last.obj \in DOMAIN store) =>
        /\ last.ok
        /\ last.val = ItemLine(IF store[last.obj].type = "tree" THEN "040000" ELSE "100644",
                               store[last.obj].type, last.obj, last.path)

\* the entry of a commit, which is neither a tree nor a blob
C9_Witness ==
    /\ ItemCall
    /\ last.mode = None
    /\ StoredType(store, last.obj) = "commit"
    /\ C9_DefaultMode

\* the entry of a tree
C9_WitnessTree ==
    /\ ItemCall
    /\ last.mode = None
    /\ StoredType(store, last.obj) = "tree"
    /\ last.ok

\* the mode of the entry a call produced: of the line treeitem_new returned,
\* of the entry with the given name in the tree tree_new_replace wrote
ProducedModes ==
    IF ItemCall THEN {treeitem_parse(last.val).val.mode}
    ELSE {e.mode : e \in Named(store, last.val, last.path)}

ModeCall ==
    /\ last.op \in {"treeitem_new", "tree_new_replace"}
    /\ last.mode # None
    /\ last.ok

\* C10 as stated: a supplied mode is the mode of the produced entry, whatever
\* the type of the object.
C10_Original ==
    ModeCall => ProducedModes = {last.mode[1]}

\* C10, amended: a supplied mode is the mode of the produced entry when the
\* store reports another type than tree for the object; the entry of a tree
\* has the mode 040000 whatever mode is supplied.
C10_SuppliedMode ==
    ModeCall =>
        ProducedModes = {IF store[last.obj].type = "tree" THEN S("040000")
                         ELSE last.mode[1]}

\* an executable mode given for a blob, through tree_new_replace
C10_Witness ==
    /\ last.op = "tree_new_replace"
    /\ last.mode = Some(S("100755"))
    /\ last.ok
    /\ StoredType(store, last.obj) = "blob"
    /\ C10_SuppliedMode

\* a mode given for a tree
C10_WitnessTree ==
    /\ ItemCall
    /\ last.mode # None
    /\ last.ok
    /\ StoredType(store, last.obj) = "tree"

\* ------------------------------------------------- the entry codec alone
MaxNameLen == 2
MaxFields == 5

\* the names of up to MaxNameLen characters, tabs and spaces among them
CodecNames == UNION {[1..n -> {"a", SP, TAB}] : n \in 0..MaxNameLen}

\* n distinct fields, as a size-annotated listing pads them
Field(i) == S("f" \o ToString(i))

RECURSIVE Meta(_, _)
Meta(n, pad) ==
    IF n = 0 THEN <<>>
    ELSE IF n = 1 THEN Field(1)
    ELSE Meta(n - 1, pad) \o pad \o Field(n)

\* got = g.treeitem_parse(item_fmt.format(mode, typ, object, name))
ParseFormatted(mod, typ, obj, name) ==
    /\ last = NoCall
    /\ \E r \in {treeitem_parse(item_fmt(mod, typ, obj, name))} :
          last' = [op |-> "parse_formatted", mode |-> mod, type |-> typ, obj |-> obj,
                   name |-> name, ok |-> r.ok, val |-> r.val]
    /\ UNCHANGED <<store, root, calls, procs>>

\* got = g.treeitem_parse(line), for a line of n fields, with or without a
\* tab and a name after them
ParseLine(n, pad, tab, name) ==
    /\ last = NoCall
    /\ tab \/ name = <<>>
    /\ \E line \in {Meta(n, pad) \o (IF tab THEN S(TAB) ELSE <<>>) \o name} :
       \E r \in {treeitem_parse(line)} :
          last' = [op |-> "treeitem_parse", line |-> line, fields |-> n, tab |-> tab,
                   name |-> name, ok |-> r.ok, val |-> r.val]
    /\ UNCHANGED <<store, root, calls, procs>>

\* the lists a caller hands over: none, the listing of a tree, and a list
\* of its own that is not in name order
ItemLists ==
    {<<>>,
     GitLsTree(InitStore, RootTree).val,
     <<LsTreeLine(Entry("100644", "blob", Blob1, S("b"))),
       LsTreeLine(Entry("040000", "tree", LeafTree, S("c"))),
       LsTreeLine(Entry("100755", "blob", Blob1, S("a")))>>}

\* new_items = g.treeitems_replace_item(itms, name, obj, mode=mode)
TreeitemsReplaceItem(itms, name, obj, mode) ==
    /\ last = NoCall
    /\ \E r \in {treeitems_replace_item(Ctx0, itms, name, obj, mode)} :
          /\ store' = r.ctx.store
          /\ last' = [op |-> "treeitems_replace_item", itms |-> itms, name |-> name,
                      obj |-> obj, mode |-> mode, pre |-> store,
                      ok |-> r.ok, val |-> r.val, log |-> r.ctx.log]
    /\ UNCHANGED <<root, calls, procs>>

NextCodec ==
    \/ \E itms \in ItemLists, name \in Names, obj \in {None} \cup {Some(o) : o \in Objs},
          mode \in Modes :
          TreeitemsReplaceItem(itms, name, obj, mode)
    \/ \E mod \in {S("100644"), S("040000")}, typ \in {S("blob"), S("tree")},
          obj \in {Blob1, LeafTree}, name \in CodecNames :
          ParseFormatted(mod, typ, obj, name)
    \/ \E n \in 0..MaxFields, pad \in {S(SP), <<SP, SP>>}, tab \in BOOLEAN,
          name \in CodecNames :
          ParseLine(n, pad, tab, name)

SpecCodec == Init /\ [][NextCodec]_vars

HasSize(itm) == "size" \in DOMAIN itm

\* what treeitem_parse returned is the entry that was formatted
RoundTrip ==
    last.op = "parse_formatted" =>
        /\ last.ok
        /\ last.val.mode = last.mode
        /\ last.val.type = last.type
        /\ last.val.object = last.obj
        /\ last.val.fn = last.name
        /\ ~HasSize(last.val)

\* C11 as stated: the formatted entry is parsed back, and the result has a
\* size exactly when the metadata part has a fourth field.
C11_Original ==
    /\ RoundTrip
    /\ (last.op = "treeitem_parse" /\ last.ok) =>
           (HasSize(last.val) <=> last.fields >= 4)

\* C11, amended: treeitem_parse of "{mode} {type} {hash}<TAB>{name}" returns
\* the same mode, type, hash and name, also when the name holds tabs or
\* spaces, and the result has a size field exactly when the metadata part
\* has exactly four whitespace-separated fields, the fourth being the size.
C11_RoundTrip ==
    /\ RoundTrip
    /\ (last.op = "treeitem_parse" /\ last.ok) =>
           /\ HasSize(last.val) <=> last.fields = 4
           /\ HasSize(last.val) => last.val.size = Field(4)
           /\ last.val.mode = Field(1)
           /\ last.val.type = Field(2)
           /\ last.val.object = Field(3)
           /\ last.val.fn = last.name

\* an entry whose name holds a tab after its first character
C11_Witness ==
    /\ last.op = "parse_formatted"
    /\ Len(last.name) = 2
    /\ last.name[2] = TAB
    /\ C11_RoundTrip

\* a size-annotated line
C11_WitnessSize ==
    /\ last.op = "treeitem_parse"
    /\ last.ok
    /\ HasSize(last.val)

\* C12: treeitem_parse of a line without a tab, or of a line with fewer than
\* three fields before its first tab, raises (ValueError, IndexError) and
\* returns no entry.
C12_Malformed ==
    (last.op = "treeitem_parse" /\ (~last.tab \/ last.fields < 3)) =>
        /\ ~last.ok
        /\ last.val = IF ~last.tab THEN S("ValueError") ELSE S("IndexError")

\* a line of four fields that lacks the tab
C12_Witness ==
    /\ last.op = "treeitem_parse"
    /\ ~last.tab
    /\ last.fields = 4
    /\ C12_Malformed

\* a line of two fields before its tab
C12_WitnessFields ==
    /\ last.op = "treeitem_parse"
    /\ last.tab
    /\ last.fields = 2
    /\ ~last.ok

\* ------------------------------------------- a call whose store may fail
\* a call of MaxDepth components issues fewer than 4 * MaxDepth commands
MaxCmds == 4 * MaxDepth

\* g.tree_add_obj(root, path, treeish), where the k-th command the call
\* issues fails in the store (k = 0: the store fails only by what it holds)
TreeAddObjFailing(path, treeish, k) ==
    /\ last = NoCall
    /\ \E r \in {tree_add_obj([Ctx0 EXCEPT !.fail = k], root, path, treeish)} :
          /\ Len(r.ctx.log) >= k
          /\ store' = r.ctx.store
          /\ last' = [op |-> "tree_add_obj", cur_tree |-> root, itms |-> <<>>,
                      path |-> path, obj |-> treeish, mode |-> None, fail |-> k,
                      pre |-> store, ok |-> r.ok, val |-> r.val, log |-> r.ctx.log]
    /\ UNCHANGED <<root, calls, procs>>

NextFail == \E path \in Paths, treeish \in Objs, k \in 0..MaxCmds :
                TreeAddObjFailing(path, treeish, k)

SpecFail == Init /\ [][NextFail]_vars

\* the commands of the last call that failed
Failed == {i \in 1..Len(last.log) : ~last.log[i].ok}

\* C13: when a store command of a tree_add_obj call fails, the call raises
\* that command's error and returns no hash, and the failed command is the
\* last one the call issues: no retry and no later command.
C13_Propagates ==
    last.op = "tree_add_obj" =>
        /\ \A i \in Failed :
              /\ i = Len(last.log)
              /\ ~last.ok
              /\ last.val = last.log[i].val
        /\ last.fail > 0 => Failed = {last.fail}

\* the store failed at a write after the call had written a tree
C13_Witness ==
    /\ last.op = "tree_add_obj"
    /\ last.fail > 1
    /\ Failed = {last.fail}
    /\ \E i \in 1..(last.fail - 1) : last.log[i].op = "mktree"
    /\ last.log[last.fail].op = "mktree"
    /\ ~last.ok

\* the store failed at the listing of a subtree
C13_WitnessListing ==
    /\ last.op = "tree_add_obj"
    /\ last.fail > 2
    /\ Failed = {last.fail}
    /\ last.log[last.fail].op = "ls-tree"

\* the store failed at the type of a stored object
C13_WitnessType ==
    /\ last.op = "tree_add_obj"
    /\ last.fail > 0
    /\ Failed = {last.fail}
    /\ last.log[last.fail].op = "cat-file"
    /\ last.obj = Blob1

\* --------------------------------------------------- two calls at a time
\* the tree that tree_add_obj(EmptyTree, "b", Blob1) writes: no object of
\* the store before that call
LateTree == TreeHash(<<Entry("100644", "blob", Blob1, S("b"))>>)

ConcObjs == {Blob1, LateTree}

\* the paths of one component and of two
ConcPaths == Names \cup {n \o S(sep) \o m : n \in Names, m \in Names}

\* a call in progress: its arguments, the commands it has issued with their
\* answers, how many commands the other call had issued when this one issued
\* its first, and what it returns alone from the initial store
Proc(cur_tree, path, treeish) ==
    [cur_tree |-> cur_tree, path |-> path, obj |-> treeish,
     log |-> <<>>, done |-> FALSE, ok |-> FALSE, val |-> <<>>, after |-> 0,
     alone |-> Let(tree_add_obj(CtxOf(InitStore), cur_tree, path, treeish),
                   LAMBDA r : [ok |-> r.ok, val |-> r.val])]

InitConc ==
    /\ store = InitStore
    /\ root = RootTree
    /\ last = NoCall
    /\ calls = 0
    /\ procs \in {<<Proc(t1, p1, o1), Proc(t2, p2, o2)>> :
                     t1 \in InitTrees, p1 \in ConcPaths, o1 \in ConcObjs,
                     t2 \in InitTrees, p2 \in ConcPaths, o2 \in ConcObjs}

\* call i issues its next command against the shared store; it returns, or
\* raises, with the answer when no further command follows
Step(i) ==
    /\ ~procs[i].done
    /\ LET ctx == [store |-> store, log |-> <<>>, replay |-> procs[i].log,
                   stop |-> Some(Len(procs[i].log) + 1), fail |-> 0]
       IN \E r \in {tree_add_obj(ctx, procs[i].cur_tree, procs[i].path, procs[i].obj)} :
             /\ store' = r.ctx.store
             /\ procs' = [procs EXCEPT ![i] =
                   LET began == IF procs[i].log = <<>> THEN Len(procs[3 - i].log)
                                ELSE procs[i].after
                   IN IF ~r.ok /\ r.val = S("Suspended")
                      THEN [@ EXCEPT !.log = r.ctx.log, !.after = began]
                      ELSE [@ EXCEPT !.log = r.ctx.log, !.after = began,
                                     !.done = TRUE, !.ok = r.ok, !.val = r.val]]
    /\ UNCHANGED <<root, last, calls>>

NextConc == \E i \in {1, 2} : Step(i)

SpecConc == InitConc /\ [][NextConc]_vars

\* the leaves of the tree call i returned that the tree it started from lacks
NewLeaves(i) ==
    Listing(store, procs[i].val) \ Listing(store, procs[i].cur_tree)

C14_WitnessLate ==
    /\ procs # <<>>
    /\ procs[2].done
    /\ procs[2].ok
    /\ ~procs[2].alone.ok

\* --------------------------------------------------- the writes of a call
\* the commands of the last call that are mktree
Writes == {i \in 1..Len(last.log) : last.log[i].op = "mktree"}

\* C15: a tree_add_obj call that returns, for a path of n components, has
\* issued exactly n mktree commands, whatever prefix of the path the root
\* holds as trees.
C15_OneWritePerLevel ==
    AddDone => Cardinality(Writes) = Len(LastComps)

\* three components: the first is a tree of the root (descent), the second
\* is a blob there (a fresh chain for the rest)
C15_Witness ==
    /\ AddDone
    /\ Len(LastComps) = 3
    /\ Cardinality(Writes) = 3
    /\ NamedTrees(last.pre, last.cur_tree, LastComps[1]) # {}
    /\ \E t \in NamedTrees(last.pre, last.cur_tree, LastComps[1]) :
           \E e \in Named(last.pre, t.object, LastComps[2]) : e.type = S("blob")

\* all three components exist as trees or as the leaf: descent all the way
C15_WitnessDescent ==
    /\ AddDone
    /\ Len(LastComps) = 3
    /\ \E t \in NamedTrees(last.pre, last.cur_tree, LastComps[1]) :
           NamedTrees(last.pre, t.object, LastComps[2]) # {}

\* ------------------------------------------------ treeitems_replace_item
ReplaceCall == last.op = "treeitems_replace_item"

\* the name of an item line: what follows its first tab
LineName(line) == Split1(line, TAB)[2]

\* the given items whose name differs from the name replaced, in their order
KeptItems == SelectSeq(last.itms, LAMBDA x : LineName(x) # last.name)

\* the list a returning call gives: the kept items, then the new item for
\* the object when one is given
ReplacedList ==
    IF last.obj = None THEN last.val = KeptItems
    ELSE /\ Len(last.val) = Len(KeptItems) + 1
         /\ SubSeq(last.val, 1, Len(KeptItems)) = KeptItems
         /\ LineName(last.val[Len(last.val)]) = last.name
         /\ treeitem_parse(last.val[Len(last.val)]).val.object = last.obj[1]

\* C16 as stated: the list is the kept items and the new one, and the call
\* issues no store command.
C16_Original ==
    ReplaceCall =>
        /\ last.ok => ReplacedList
        /\ last.log = <<>>

\* C16, amended: treeitems_replace_item writes nothing to the store and
\* returns the kept items in their order followed by the new item when an
\* object is given; it issues no command when no object is given, and one
\* cat-file -t of the object when one is given, raising when that raises.
C16_ListTransform ==
    ReplaceCall =>
        /\ last.ok => ReplacedList
        /\ store = last.pre
        /\ Len(last.log) = IF last.obj = None THEN 0 ELSE 1
        /\ \A i \in 1..Len(last.log) :
              /\ last.log[i].op = "cat-file"
              /\ last.log[i].arg = last.obj[1]
              /\ last.log[i].ok = last.ok

\* an item of three is replaced: the two others stay in their order and the
\* new item comes last, after one cat-file
C16_Witness ==
    /\ ReplaceCall
    /\ last.ok
    /\ Len(last.itms) = 3
    /\ Len(last.val) = 3
    /\ last.obj # None
    /\ last.val[1] = last.itms[2]
    /\ last.val[2] = last.itms[3]
    /\ Len(last.log) = 1

\* no object: the item is removed and no command is issued
C16_WitnessRemove ==
    /\ ReplaceCall
    /\ last.ok
    /\ last.obj = None
    /\ Len(last.val) < Len(last.itms)
    /\ last.log = <<>>

\* ------------------------------------------------------ an unknown object
\* C17: a tree_add_obj call whose object the store does not hold raises at
\* the cat-file of that object, before any mktree, whatever the root and the
\* path: the store holds what it held before the call.
C17_UnknownObject ==
    (AddCall /\ last.obj \notin DOMAIN last.pre) =>
        /\ ~last.ok
        /\ Writes = {}
        /\ store = last.pre
        /\ Len(last.log) > 0
        /\ last.log[Len(last.log)].op = "cat-file"
        /\ last.log[Len(last.log)].arg = last.obj
        /\ ~last.log[Len(last.log)].ok

\* the unknown object at a path of three components whose first is a tree of
\* the root and whose second is a blob there: a chain would be synthesized
C17_Witness ==
    /\ AddCall
    /\ last.obj = Unknown
    /\ Len(LastComps) = 3
    /\ \E t \in NamedTrees(last.pre, last.cur_tree, LastComps[1]) :
           \E e \in Named(last.pre, t.object, LastComps[2]) : e.type = S("blob")
    /\ C17_UnknownObject

\* the unknown object at a path of one component
C17_WitnessSingle ==
    /\ AddCall
    /\ last.obj = Unknown
    /\ Len(LastComps) = 1
    /\ ~last.ok

\* the unknown object at a path whose prefix exists as trees all the way
C17_WitnessDescent ==
    /\ AddCall
    /\ last.obj = Unknown
    /\ Len(LastComps) = 3
    /\ \E t \in NamedTrees(last.pre, last.cur_tree, LastComps[1]) :
           NamedTrees(last.pre, t.object, LastComps[2]) # {}
    /\ ~last.ok

\* ------------------------------------------------- two inserts, two orders
\* r = g.tree_add_obj(g.tree_add_obj(root, pa, oa), pb, ob)
AddTwice(ctx, cur_tree, pa, oa, pb, ob) ==
    Try(tree_add_obj(ctx, cur_tree, pa, oa), LAMBDA r : tree_add_obj(r.ctx, r.val, pb, ob))

\* the two inserts in the one order and, from the same store, in the other
TreeAddObjBoth(p1, o1, p2, o2) ==
    /\ last = NoCall
    /\ ~IsPrefix(SplitAll(p1, sep), SplitAll(p2, sep))
    /\ ~IsPrefix(SplitAll(p2, sep), SplitAll(p1, sep))
    /\ \E r12 \in {AddTwice(Ctx0, root, p1, o1, p2, o2)} :
       \E r21 \in {AddTwice(Ctx0, root, p2, o2, p1, o1)} :
          /\ store' = r12.ctx.store
          /\ last' = [op |-> "tree_add_obj_both", cur_tree |-> root, pre |-> store,
                      p1 |-> p1, o1 |-> o1, p2 |-> p2, o2 |-> o2,
                      first |-> [ok |-> r12.ok, val |-> r12.val],
                      second |-> [ok |-> r21.ok, val |-> r21.val]]
    /\ UNCHANGED <<root, calls, procs>>

NextPair == \E p1 \in Paths, p2 \in Paths, o1 \in Objs, o2 \in Objs :
                TreeAddObjBoth(p1, o1, p2, o2)

SpecPair == Init /\ [][NextPair]_vars

BothCall == last.op = "tree_add_obj_both"

\* C18: for paths of which neither is a component-wise prefix of the other,
\* the two inserts return the same hash in either order, and one order
\* returns when the other does.
C18_Commute ==
    BothCall =>
        /\ last.first.ok = last.second.ok
        /\ last.first.ok => last.first.val = last.second.val

\* the paths share a first component that names a blob in the root
C18_Witness ==
    /\ BothCall
    /\ last.first.ok
    /\ last.o1 # last.o2
    /\ SplitAll(last.p1, sep)[1] = SplitAll(last.p2, sep)[1]
    /\ \E e \in Named(last.pre, last.cur_tree, SplitAll(last.p1, sep)[1]) :
           e.type = S("blob")
    /\ C18_Commute

\* the paths share two components that the root lacks
C18_WitnessAbsent ==
    /\ BothCall
    /\ last.first.ok
    /\ Len(SplitAll(last.p1, sep)) = 3
    /\ Len(SplitAll(last.p2, sep)) = 3
    /\ SubSeq(SplitAll(last.p1, sep), 1, 2) = SubSeq(SplitAll(last.p2, sep), 1, 2)
    /\ Named(last.pre, last.cur_tree, SplitAll(last.p1, sep)[1]) = {}
    /\ last.first.val = last.second.val

\* ------------------------------------------------ an insert of what is there
\* the mode treeitem_new gives an object of that type when none is supplied
DefaultMode(typ) == IF typ = "tree" THEN S("040000") ELSE S("100644")

\* the entries at the path of the last call that reference its object, when
\* every proper prefix of the path names a tree
EntriesThere ==
    LET t == Descend(last.pre, last.cur_tree, Front(LastComps))
    IN IF t = None THEN {}
       ELSE {e \in Named(last.pre, t[1], LastComps[Len(LastComps)]) :
                 e.object = last.obj}

\* C19: when every proper prefix of the path names a tree and the entry at
\* the path references the object, tree_add_obj returns the root's own hash
\* if the entry has the default mode of the object's type, and another hash
\* if it has another mode.
C19_NoChange ==
    AddCall =>
        \A e \in EntriesThere :
            /\ last.ok
            /\ e.mode = DefaultMode(last.pre[last.obj].type) <=> last.val = last.cur_tree

\* the blob is there, three levels down, with mode 100644
C19_Witness ==
    /\ AddDone
    /\ Len(LastComps) = 3
    /\ \E e \in EntriesThere : e.mode = S("100644")
    /\ last.val = last.cur_tree
    /\ last.val = RootTree

\* the tree is there with mode 040000
C19_WitnessTree ==
    /\ AddDone
    /\ \E e \in EntriesThere : e.mode = S("040000")
    /\ last.val = last.cur_tree

\* the blob is there with mode 100755: the entry is rewritten with 100644
C19_WitnessOtherMode ==
    /\ AddDone
    /\ \E e \in EntriesThere : e.mode = S("100755")
    /\ last.val # last.cur_tree
    /\ \E pl \in Listing(store, last.val) : pl = <<LastComps, last.obj>>

====
